---- MODULE Spec2Model ----
(***************************************************************************)
(* Model of scripts/validate_generated_plan_contract.py: the contract      *)
(* validator validate(plan) and its helpers _err and _extract_index.       *)
(*                                                                         *)
(* A parsed JSON document is a tagged value:                               *)
(*   null           [k |-> "null"]                                         *)
(*   true / false   [k |-> "bool", b |-> TRUE]                             *)
(*   number         [k |-> "num",  n |-> 3]                                *)
(*   string         [k |-> "str",  s |-> <<"M", "1">>]  (characters)       *)
(*   array          [k |-> "list", items |-> <<v1, v2>>]                   *)
(*   object         [k |-> "dict", pairs |-> << <<"key", v>>, ... >>]      *)
(* Strings are sequences of one-character strings, so that the regular     *)
(* expression search of _extract_index is computed and not looked up.      *)
(* validate is a state machine over its loop positions; an uncaught        *)
(* AttributeError is the terminal position "raised".                       *)
(***************************************************************************)
EXTENDS Integers, Sequences, FiniteSets, TLC

(* ------------------------------------------------------------------ *)
(* Program constants (lines 15-18)                                    *)
(* ------------------------------------------------------------------ *)
PHASE_MIN == 7
WAVE_MIN == 5
MILESTONE_EXACT == 4
TASK_EXACT == 15

(* ------------------------------------------------------------------ *)
(* Bounds of the enumerated input documents                           *)
(* ------------------------------------------------------------------ *)
MaxTasks == 2
MaxMilestones == 3
MaxPhases == 2

(* ------------------------------------------------------------------ *)
(* JSON values                                                        *)
(* ------------------------------------------------------------------ *)
Null == [k |-> "null"]
BoolV(b) == [k |-> "bool", b |-> b]
NumV(n) == [k |-> "num", n |-> n]
StrV(s) == [k |-> "str", s |-> s]
ListV(items) == [k |-> "list", items |-> items]
DictV(pairs) == [k |-> "dict", pairs |-> pairs]

\* isinstance(v, list), isinstance(v, dict)
IsList(v) == v.k = "list"
IsDict(v) == v.k = "dict"

\* key in d
HasKey(d, key) == \E i \in 1..Len(d.pairs) : d.pairs[i][1] = key

\* d.get(key, default): json.loads keeps the last of duplicate keys
Get(d, key, default) ==
    IF HasKey(d, key)
    THEN LET i == CHOOSE j \in 1..Len(d.pairs) :
                    /\ d.pairs[j][1] = key
                    /\ \A h \in (j+1)..Len(d.pairs) : d.pairs[h][1] # key
         IN d.pairs[i][2]
    ELSE default

(* ------------------------------------------------------------------ *)
(* Strings                                                            *)
(* ------------------------------------------------------------------ *)
DigitChars == <<"0", "1", "2", "3", "4", "5", "6", "7", "8", "9">>

IsDigit(c) == \E d \in 1..10 : DigitChars[d] = c

DigitVal(c) == (CHOOSE d \in 1..10 : DigitChars[d] = c) - 1

\* the decimal text of a natural number, as str(n) and f"{n}" give it
RECURSIVE Digits(_)
Digits(n) == IF n < 10 THEN <<DigitChars[n + 1]>>
             ELSE Digits(n \div 10) \o <<DigitChars[(n % 10) + 1]>>

\* int(text) of a run of decimal digits value[i..j]
RECURSIVE ParseInt(_, _, _)
ParseInt(value, i, j) ==
    IF j < i THEN 0 ELSE ParseInt(value, i, j - 1) * 10 + DigitVal(value[j])

\* str(v) and format(v, "") of a scalar JSON value
Str(v) ==
    CASE v.k = "str" -> v.s
      [] v.k = "num" -> Digits(v.n)
      [] v.k = "null" -> <<"N", "o", "n", "e">>
      [] v.k = "bool" -> IF v.b THEN <<"T", "r", "u", "e">>
                                ELSE <<"F", "a", "l", "s", "e">>

\* _extract_index's result None
None == -1

\* positions where re.search can match marker(\d+): the marker with a digit after it
MatchStarts(value, marker) ==
    {i \in 1..(Len(value) - 1) : value[i] = marker /\ IsDigit(value[i + 1])}

\* end of the greedy digit run \d+ that begins at position i
DigitRunEnd(value, i) ==
    CHOOSE j \in i..Len(value) :
        /\ \A h \in i..j : IsDigit(value[h])
        /\ (j = Len(value) \/ ~IsDigit(value[j + 1]))

ExtractIndex_ZeroWhenMissing(value, marker) ==
    LET starts == MatchStarts(value, marker)
    IN IF starts = {} THEN 0
       ELSE LET i == CHOOSE x \in starts : \A y \in starts : x <= y
            IN ParseInt(value, i + 1, DigitRunEnd(value, i + 1))

\* _extract_index(value, marker): leftmost match, int(m.group(1)), or None
ExtractIndex(value, marker) ==
    LET starts == MatchStarts(value, marker)
    IN IF starts = {} THEN None
       ELSE LET i == CHOOSE x \in starts : \A y \in starts : x <= y
            IN ParseInt(value, i + 1, DigitRunEnd(value, i + 1))

(* ------------------------------------------------------------------ *)
(* Violation messages: an f-string is kept as its template and the    *)
(* formatted values it interpolates (_err appends it to errors)       *)
(* ------------------------------------------------------------------ *)
Msg(fmt, pid, mid, tid, n) ==
    [fmt |-> fmt, pid |-> pid, mid |-> mid, tid |-> tid, n |-> n]

NoText == <<>>

(* ------------------------------------------------------------------ *)
(* The rules of validate, one operator per check                      *)
(* ------------------------------------------------------------------ *)

\* pid = phase.get("phase_id", f"phase[{phase_idx}]"), as the f-strings format it
Pid(phase, idx) ==
    IF HasKey(phase, "phase_id")
    THEN Str(Get(phase, "phase_id", Null))
    ELSE <<"p", "h", "a", "s", "e", "[">> \o Digits(idx) \o <<"]">>

\* str(mid) for mid = milestone.get("milestone_id", f"{pid}:milestone")
Mid(milestone, pid) ==
    IF HasKey(milestone, "milestone_id")
    THEN Str(Get(milestone, "milestone_id", Null))
    ELSE pid \o <<":", "m", "i", "l", "e", "s", "t", "o", "n", "e">>

\* tid = str(task.get("task_id", ""))
Tid(task) ==
    IF HasKey(task, "task_id") THEN Str(Get(task, "task_id", Null)) ELSE <<>>

PhasesErrors_NoMissingError(phases) ==
    IF ~IsList(phases) THEN <<>>
    ELSE IF Len(phases.items) < PHASE_MIN
         THEN <<Msg("phase_count={len(phases)} < {PHASE_MIN}", NoText, NoText, NoText,
                    Len(phases.items))>>
         ELSE <<>>

\* lines 37-42
PhasesErrors(phases) ==
    IF ~IsList(phases)
    THEN <<Msg("Missing required array: phases", NoText, NoText, NoText, 0)>>
    ELSE IF Len(phases.items) < PHASE_MIN
         THEN <<Msg("phase_count={len(phases)} < {PHASE_MIN}", NoText, NoText, NoText,
                    Len(phases.items))>>
         ELSE <<>>

\* lines 48-51
WavesErrors(pid, waves) ==
    IF ~IsList(waves)
    THEN <<Msg("{pid}: missing waves[]", pid, NoText, NoText, 0)>>
    ELSE IF Len(waves.items) < WAVE_MIN
         THEN <<Msg("{pid}: wave_count={len(waves)} < {WAVE_MIN}", pid, NoText, NoText,
                    Len(waves.items))>>
         ELSE <<>>

\* lines 54-62
MilestonesErrors(pid, milestones) ==
    IF ~IsList(milestones)
    THEN <<Msg("{pid}: missing milestones[]", pid, NoText, NoText, 0)>>
    ELSE IF Len(milestones.items) # MILESTONE_EXACT
         THEN <<Msg("{pid}: milestone_count={len(milestones)} != {MILESTONE_EXACT}",
                    pid, NoText, NoText, Len(milestones.items))>>
         ELSE <<>>

SeqViolation_EqualAccepted(index, prev) == index < prev

\* lines 71 and 93: index <= prev
SeqViolation(index, prev) == index <= prev

\* lines 69-74 and 91-96: the running previous index after one element
AdvancePrev(index, prev) ==
    IF index = None THEN prev
    ELSE IF SeqViolation(index, prev) THEN prev
    ELSE index

\* lines 68-72
MilestoneMarkerErrors(pid, mid, prev) ==
    LET m_index == ExtractIndex(mid, "M")
    IN IF m_index = None
       THEN <<Msg("{pid}: {mid}: missing milestone sequence marker", pid, mid, NoText, 0)>>
       ELSE IF SeqViolation(m_index, prev)
            THEN <<Msg("{pid}: {mid}: milestone sequence is not strict", pid, mid, NoText, 0)>>
            ELSE <<>>

\* lines 77-85
TasksErrors(pid, mid, tasks) ==
    IF ~IsList(tasks)
    THEN <<Msg("{pid}: {mid}: missing tasks[]", pid, mid, NoText, 0)>>
    ELSE IF Len(tasks.items) # TASK_EXACT
         THEN <<Msg("{pid}: {mid}: task_count={len(tasks)} != {TASK_EXACT}", pid, mid,
                    NoText, Len(tasks.items))>>
         ELSE <<>>

\* lines 90-94
TaskMarkerErrors(pid, mid, tid, prev) ==
    LET t_index == ExtractIndex(tid, "T")
    IN IF t_index = None
       THEN <<Msg("{pid}: {mid}: task missing sequence marker: {tid}", pid, mid, tid, 0)>>
       ELSE IF SeqViolation(t_index, prev)
            THEN <<Msg("{pid}: {mid}: task sequence is not strict", pid, mid, NoText, 0)>>
            ELSE <<>>

\* lines 98-99
DoneCriteriaErrors(pid, mid, tid, task) ==
    IF ~HasKey(task, "done_criteria")
    THEN <<Msg("{pid}: {mid}: {tid}: missing done_criteria", pid, mid, tid, 0)>>
    ELSE <<>>

\* lines 101-104
MilestoneGateErrors(pid, mid, milestone) ==
    (IF ~HasKey(milestone, "unit_gate")
     THEN <<Msg("{pid}: {mid}: missing unit_gate", pid, mid, NoText, 0)>>
     ELSE <<>>)
    \o
    (IF ~HasKey(milestone, "integration_gate")
     THEN <<Msg("{pid}: {mid}: missing integration_gate", pid, mid, NoText, 0)>>
     ELSE <<>>)

PhaseGatesOf_DefaultNone(phase) == Get(phase, "phase_gates", Null)

\* line 106: phase.get("phase_gates", {})
PhaseGatesOf(phase) == Get(phase, "phase_gates", DictV(<<>>))

RollingRequired_FromThird(idx) == idx > 2

\* line 114
RollingRequired(idx) == idx > 1

\* lines 107-118
PhaseGateErrors(pid, idx, phase_gates) ==
    IF ~IsDict(phase_gates)
    THEN <<Msg("{pid}: phase_gates must be an object", pid, NoText, NoText, 0)>>
    ELSE (IF ~HasKey(phase_gates, "phase_end_e2e")
          THEN <<Msg("{pid}: missing phase_gates.phase_end_e2e", pid, NoText, NoText, 0)>>
          ELSE <<>>)
         \o
         (IF RollingRequired(idx) /\ ~HasKey(phase_gates, "rolling_inter_phase_integration")
          THEN <<Msg("{pid}: missing rolling_inter_phase_integration", pid, NoText, NoText, 0)>>
          ELSE <<>>)
         \o
         (IF RollingRequired(idx) /\ ~HasKey(phase_gates, "rolling_cumulative_e2e")
          THEN <<Msg("{pid}: missing rolling_cumulative_e2e", pid, NoText, NoText, 0)>>
          ELSE <<>>)

(* ------------------------------------------------------------------ *)
(* State of one call validate(plan)                                   *)
(* ------------------------------------------------------------------ *)
VARIABLES
    plan,           \* the argument
    pc,             \* "start", "phase", "milestone", "task", "done", "raised"
    errors,         \* the list validate accumulates and returns
    phase_idx,      \* enumerate(phases, start=1)
    m_pos,          \* position of the for loop over milestones
    t_pos,          \* position of the for loop over tasks
    prev_m_index,
    prev_t_index

vars == <<plan, pc, errors, phase_idx, m_pos, t_pos, prev_m_index, prev_t_index>>

\* the locals of validate, as functions of the loop positions
phases == Get(plan, "phases", Null)
phase == phases.items[phase_idx]
pid == Pid(phase, phase_idx)
waves == Get(phase, "waves", Null)
milestones == Get(phase, "milestones", Null)
milestone == milestones.items[m_pos]
mid == Mid(milestone, pid)
tasks == Get(milestone, "tasks", Null)
task == tasks.items[t_pos]
tid == Tid(task)

\* AttributeError: .get on a value that is no dict leaves validate by an exception
Raise ==
    /\ pc' = "raised"
    /\ UNCHANGED <<plan, errors, phase_idx, m_pos, t_pos, prev_m_index, prev_t_index>>

\* lines 34-42
Begin ==
    /\ pc = "start"
    /\ IF ~IsDict(plan) THEN Raise
       ELSE /\ errors' = errors \o PhasesErrors(phases)
            /\ pc' = IF IsList(phases) THEN "phase" ELSE "done"
            /\ phase_idx' = IF IsList(phases) THEN 1 ELSE phase_idx
            /\ UNCHANGED <<plan, m_pos, t_pos, prev_m_index, prev_t_index>>

PhaseHead_CountBlocks ==
    /\ pc = "phase"
    /\ phase_idx <= Len(phases.items)
    /\ IF ~IsDict(phase) THEN Raise
       ELSE /\ errors' = errors \o WavesErrors(pid, waves) \o MilestonesErrors(pid, milestones)
            /\ IF ~IsList(milestones) \/ Len(milestones.items) # MILESTONE_EXACT
               THEN /\ phase_idx' = phase_idx + 1
                    /\ UNCHANGED <<pc, m_pos, prev_m_index>>
               ELSE /\ prev_m_index' = 0
                    /\ m_pos' = 1
                    /\ pc' = "milestone"
                    /\ UNCHANGED phase_idx
            /\ UNCHANGED <<plan, t_pos, prev_t_index>>

\* lines 44-64: one phase up to its milestone loop
PhaseHead ==
    /\ pc = "phase"
    /\ phase_idx <= Len(phases.items)
    /\ IF ~IsDict(phase) THEN Raise
       ELSE /\ errors' = errors \o WavesErrors(pid, waves) \o MilestonesErrors(pid, milestones)
            /\ IF ~IsList(milestones)
               THEN /\ phase_idx' = phase_idx + 1
                    /\ UNCHANGED <<pc, m_pos, prev_m_index>>
               ELSE /\ prev_m_index' = 0
                    /\ m_pos' = 1
                    /\ pc' = "milestone"
                    /\ UNCHANGED phase_idx
            /\ UNCHANGED <<plan, t_pos, prev_t_index>>

\* lines 65-87: one milestone up to its task loop
MilestoneHead ==
    /\ pc = "milestone"
    /\ m_pos <= Len(milestones.items)
    /\ IF ~IsDict(milestone) THEN Raise
       ELSE /\ errors' = errors \o MilestoneMarkerErrors(pid, mid, prev_m_index)
                                \o TasksErrors(pid, mid, tasks)
            /\ prev_m_index' = AdvancePrev(ExtractIndex(mid, "M"), prev_m_index)
            /\ IF ~IsList(tasks)
               THEN /\ m_pos' = m_pos + 1
                    /\ UNCHANGED <<pc, t_pos, prev_t_index>>
               ELSE /\ prev_t_index' = 0
                    /\ t_pos' = 1
                    /\ pc' = "task"
                    /\ UNCHANGED m_pos
            /\ UNCHANGED <<plan, phase_idx>>

\* lines 88-99: one task
TaskStep ==
    /\ pc = "task"
    /\ t_pos <= Len(tasks.items)
    /\ IF ~IsDict(task) THEN Raise
       ELSE /\ errors' = errors \o TaskMarkerErrors(pid, mid, tid, prev_t_index)
                                \o DoneCriteriaErrors(pid, mid, tid, task)
            /\ prev_t_index' = AdvancePrev(ExtractIndex(tid, "T"), prev_t_index)
            /\ t_pos' = t_pos + 1
            /\ UNCHANGED <<plan, pc, phase_idx, m_pos, prev_m_index>>

\* lines 101-104: after the task loop of a milestone
MilestoneGates ==
    /\ pc = "task"
    /\ t_pos > Len(tasks.items)
    /\ errors' = errors \o MilestoneGateErrors(pid, mid, milestone)
    /\ m_pos' = m_pos + 1
    /\ pc' = "milestone"
    /\ UNCHANGED <<plan, phase_idx, t_pos, prev_m_index, prev_t_index>>

\* lines 106-118: after the milestone loop of a phase
PhaseGates ==
    /\ pc = "milestone"
    /\ m_pos > Len(milestones.items)
    /\ errors' = errors \o PhaseGateErrors(pid, phase_idx, PhaseGatesOf(phase))
    /\ phase_idx' = phase_idx + 1
    /\ pc' = "phase"
    /\ UNCHANGED <<plan, m_pos, t_pos, prev_m_index, prev_t_index>>

\* line 120
Return ==
    /\ pc = "phase"
    /\ phase_idx > Len(phases.items)
    /\ pc' = "done"
    /\ UNCHANGED <<plan, errors, phase_idx, m_pos, t_pos, prev_m_index, prev_t_index>>

Next ==
    \/ Begin
    \/ PhaseHead
    \/ MilestoneHead
    \/ TaskStep
    \/ MilestoneGates
    \/ PhaseGates
    \/ Return

(* ------------------------------------------------------------------ *)
(* Input documents                                                    *)
(* ------------------------------------------------------------------ *)
Field(key, v) == << <<key, v>> >>
Absent == <<>>

SeqsUpTo(S, n) == UNION {[1..m -> S] : m \in 0..n}

TId(n) == <<"T">> \o Digits(n)
MId(n) == <<"M">> \o Digits(n)
S_P01 == <<"P", "0", "1">>
S_PM1 == <<"P", "M", "1">>
S_PM2 == <<"P", "M", "2">>
S_taskx == <<"t", "a", "s", "k", "-", "x">>
S_P01M3T12 == <<"P", "0", "1", "-", "M", "3", "-", "T", "1", "2">>

PlanOf(phaseSeq) == DictV(Field("phases", ListV(phaseSeq)))
WavesOf(n) == Field("waves", ListV([i \in 1..n |-> NumV(i)]))
BothGates == Field("unit_gate", NumV(1)) \o Field("integration_gate", NumV(1))
E2E == Field("phase_end_e2e", NumV(1))
Inter == Field("rolling_inter_phase_integration", NumV(1))
Cumul == Field("rolling_cumulative_e2e", Null)
AllPhaseGates == Field("phase_gates", DictV(E2E \o Inter \o Cumul))

\* tasks: identifiers with and without a T<digits> marker, with and without
\* done_criteria, and an element that is no object
TaskAlphabet ==
    {DictV(idf \o Field("done_criteria", Null)) :
        idf \in {Absent} \cup {Field("task_id", StrV(s)) :
                    s \in {TId(1), TId(2), TId(0), S_taskx, S_P01M3T12}}}
    \cup {DictV(Field("task_id", StrV(s))) : s \in {TId(1), S_taskx}}
    \cup {Null}

OneTask == Field("tasks", ListV(<<DictV(Field("task_id", StrV(TId(1)))
                                      \o Field("done_criteria", NumV(1)))>>))

\* one phase with one milestone M1 holding every task list up to MaxTasks
TaskLevelPlans ==
    {PlanOf(<<DictV(Field("phase_id", StrV(S_P01)) \o WavesOf(WAVE_MIN)
                    \o Field("milestones", ListV(<<
                          DictV(Field("milestone_id", StrV(MId(1)))
                                \o Field("tasks", ListV(ts)) \o BothGates)>>))
                    \o AllPhaseGates)>>) :
        ts \in SeqsUpTo(TaskAlphabet, MaxTasks)}

MilestoneAlphabet ==
    {DictV(Field("milestone_id", StrV(s)) \o OneTask \o BothGates) :
        s \in {MId(1), MId(3), MId(0), S_taskx}}
    \cup {DictV(OneTask \o BothGates),
          DictV(Field("milestone_id", StrV(MId(2)))),
          DictV(Field("milestone_id", StrV(MId(1))) \o Field("tasks", Null)
                \o Field("unit_gate", Null)),
          Null}

\* one phase, its phase_id absent or itself holding M<digits>, with every
\* milestone list up to MaxMilestones
MilestoneLevelPlans ==
    {PlanOf(<<DictV(pidf \o WavesOf(WAVE_MIN) \o Field("milestones", ListV(ms))
                    \o AllPhaseGates)>>) :
        pidf \in {Absent, Field("phase_id", StrV(S_PM2))},
        ms \in SeqsUpTo(MilestoneAlphabet, MaxMilestones)}

SimpleMilestones ==
    Field("milestones", ListV(<<DictV(Field("milestone_id", StrV(MId(1)))
                                      \o Field("tasks", ListV(<<>>)) \o BothGates)>>))

PhaseAlphabet ==
    {DictV(Field("phase_id", StrV(S_P01)) \o WavesOf(WAVE_MIN) \o SimpleMilestones \o gf) :
        gf \in {Absent,
                Field("phase_gates", Null),
                Field("phase_gates", DictV(<<>>)),
                Field("phase_gates", DictV(E2E \o Inter)),
                Field("phase_gates", DictV(Cumul)),
                AllPhaseGates}}
    \cup {DictV(Field("phase_id", StrV(S_P01)) \o WavesOf(WAVE_MIN) \o msf \o gf) :
            msf \in {Absent, Field("milestones", StrV(S_taskx))},
            gf \in {Absent, AllPhaseGates}}
    \cup {DictV(idf \o wf \o SimpleMilestones) :
            idf \in {Absent, Field("phase_id", Null)},
            wf \in {Absent, WavesOf(WAVE_MIN - 1)}}
    \cup {Null}

\* every list of phases up to MaxPhases
PhaseLevelPlans == {PlanOf(ps) : ps \in SeqsUpTo(PhaseAlphabet, MaxPhases)}

\* a plan that is no object, or an object whose phases is absent or no array
TopLevelPlans ==
    {Null, ListV(<<>>), StrV(S_P01), NumV(7), BoolV(TRUE)}
    \cup {DictV(other \o pf) :
            other \in {Absent, Field("milestones", ListV(<<Null>>))},
            pf \in {Absent, Field("phases", Null), Field("phases", DictV(<<>>)),
                    Field("phases", StrV(S_taskx)), Field("phases", NumV(7))}}

\* full-size plans: every phase meets the contract but one, which departs from it
\* as a variant says
StdVariant ==
    [pm |-> FALSE, waves |-> WAVE_MIN, ms |-> MILESTONE_EXACT, tasks |-> TASK_EXACT,
     firstId |-> TRUE, gates |-> E2E \o Inter \o Cumul]

FullVariants ==
    {StdVariant,
     [StdVariant EXCEPT !.waves = WAVE_MIN - 1],
     [StdVariant EXCEPT !.waves = WAVE_MIN + 1],
     [StdVariant EXCEPT !.ms = MILESTONE_EXACT - 1],
     [StdVariant EXCEPT !.ms = MILESTONE_EXACT + 1],
     [StdVariant EXCEPT !.tasks = TASK_EXACT - 1],
     [StdVariant EXCEPT !.tasks = TASK_EXACT + 1],
     [StdVariant EXCEPT !.firstId = FALSE],
     [StdVariant EXCEPT !.firstId = FALSE, !.pm = TRUE],
     [StdVariant EXCEPT !.gates = E2E]}

FullTasks(n) ==
    ListV([k \in 1..n |-> DictV(Field("task_id", StrV(TId(k)))
                                 \o Field("done_criteria", NumV(1)))])

FullMilestone(j, v) ==
    DictV((IF j = 1 /\ ~v.firstId THEN Absent ELSE Field("milestone_id", StrV(MId(j))))
          \o Field("tasks", FullTasks(IF j = 1 THEN v.tasks ELSE TASK_EXACT))
          \o BothGates)

FullPhase(i, v) ==
    DictV(Field("phase_id", StrV(IF v.pm THEN S_PM1 ELSE <<"P">> \o Digits(i)))
          \o WavesOf(v.waves)
          \o Field("milestones", ListV([j \in 1..v.ms |-> FullMilestone(j, v)]))
          \o Field("phase_gates", DictV(v.gates)))

FullPlans ==
    {PlanOf([i \in 1..PHASE_MIN |-> FullPhase(i, IF i = 1 THEN v ELSE StdVariant)]) :
        v \in FullVariants}
    \cup {PlanOf([i \in 1..PHASE_MIN |->
                    FullPhase(i, IF i = 2 THEN [StdVariant EXCEPT !.gates = E2E]
                                 ELSE StdVariant)]),
          PlanOf([i \in 1..(PHASE_MIN - 1) |-> FullPhase(i, StdVariant)])}

Plans == TopLevelPlans \cup PhaseLevelPlans \cup MilestoneLevelPlans
         \cup TaskLevelPlans \cup FullPlans

Init ==
    /\ plan \in Plans
    /\ pc = "start"
    /\ errors = <<>>
    /\ phase_idx = 0
    /\ m_pos = 0
    /\ t_pos = 0
    /\ prev_m_index = 0
    /\ prev_t_index = 0

Spec == Init /\ [][Next]_vars

(* ================================================================== *)
(* Properties                                                         *)
(* ================================================================== *)
Returned == pc = "done"

\* the messages of errors built from one template
CountFmt(fmt) == Cardinality({i \in 1..Len(errors) : errors[i].fmt = fmt})

Contains(m) == \E i \in 1..Len(errors) : errors[i] = m

\* text holds the letter marker with a decimal digit right after it
HasMarker(text, marker) ==
    \E i \in 1..(Len(text) - 1) :
        /\ text[i] = marker
        /\ text[i + 1] \in {"0", "1", "2", "3", "4", "5", "6", "7", "8", "9"}

\* the elements validate walks through: phases of a plan it accepted, milestones
\* of a phase whose milestones is an array, tasks of a milestone whose tasks is one
PhaseAt(i) == phases.items[i]
MilestonesAt(i) == Get(PhaseAt(i), "milestones", Null)
MilestoneAt(i, j) == MilestonesAt(i).items[j]
TasksAt(i, j) == Get(MilestoneAt(i, j), "tasks", Null)
PhasePositions == 1..Len(phases.items)
MilestonePositions ==
    UNION {{<<i, j>> : j \in 1..Len(MilestonesAt(i).items)} :
              i \in {h \in PhasePositions : IsList(MilestonesAt(h))}}

\* C1: validate never raises: whatever JSON tree is passed as plan, the call ends
\* by returning its list of violations, a wrongly typed node being reported as a
\* violation and never aborting the call.
C1_NeverRaises == pc # "raised"

\* C3: for a plan object whose phases is absent or is no array, validate returns
\* exactly one violation, the missing-phases message, and starts no other check,
\* whatever else the document holds.
C3_MissingPhasesOnly ==
    (IsDict(plan) /\ ~IsList(phases) /\ pc # "start")
        => /\ pc = "done"
           /\ errors = <<Msg("Missing required array: phases", NoText, NoText, NoText, 0)>>
           /\ phase_idx = 0
           /\ m_pos = 0
           /\ t_pos = 0

C3_Witness ==
    /\ Returned
    /\ IsDict(plan)
    /\ HasKey(plan, "phases")
    /\ ~IsList(phases)
    /\ HasKey(plan, "milestones")
    /\ Len(errors) = 1

(* ------------------------------------------------------------------ *)
(* The result as a composition over the elements present              *)
(* ------------------------------------------------------------------ *)
\* the running previous index after the first n of a list of extracted indices
RECURSIVE RunningIndex(_, _)
RunningIndex(idxs, n) ==
    IF n = 0 THEN 0
    ELSE LET before == RunningIndex(idxs, n - 1)
         IN IF idxs[n] # None /\ idxs[n] > before THEN idxs[n] ELSE before

PidAt(i) == Pid(PhaseAt(i), i)
MidAt(i, j) == Mid(MilestoneAt(i, j), PidAt(i))
MIdxs(i) == [j \in 1..Len(MilestonesAt(i).items) |-> ExtractIndex(MidAt(i, j), "M")]
TIdxs(i, j) ==
    [n \in 1..Len(TasksAt(i, j).items) |-> ExtractIndex(Tid(TasksAt(i, j).items[n]), "T")]

\* what the n-th task of milestone (i, j) yields on its own
OwnTaskErrors(i, j, n) ==
    LET t == TasksAt(i, j).items[n]
    IN TaskMarkerErrors(PidAt(i), MidAt(i, j), Tid(t), RunningIndex(TIdxs(i, j), n - 1))
       \o DoneCriteriaErrors(PidAt(i), MidAt(i, j), Tid(t), t)

RECURSIVE TasksOwn(_, _, _)
TasksOwn(i, j, n) ==
    IF n = 0 THEN <<>> ELSE TasksOwn(i, j, n - 1) \o OwnTaskErrors(i, j, n)

OwnMilestoneErrors(i, j) ==
    MilestoneMarkerErrors(PidAt(i), MidAt(i, j), RunningIndex(MIdxs(i), j - 1))
    \o TasksErrors(PidAt(i), MidAt(i, j), TasksAt(i, j))
    \o (IF IsList(TasksAt(i, j))
        THEN TasksOwn(i, j, Len(TasksAt(i, j).items))
             \o MilestoneGateErrors(PidAt(i), MidAt(i, j), MilestoneAt(i, j))
        ELSE <<>>)

RECURSIVE MilestonesOwn(_, _)
MilestonesOwn(i, n) ==
    IF n = 0 THEN <<>> ELSE MilestonesOwn(i, n - 1) \o OwnMilestoneErrors(i, n)

OwnPhaseErrors(i) ==
    WavesErrors(PidAt(i), Get(PhaseAt(i), "waves", Null))
    \o MilestonesErrors(PidAt(i), MilestonesAt(i))
    \o (IF IsList(MilestonesAt(i))
        THEN MilestonesOwn(i, Len(MilestonesAt(i).items))
             \o PhaseGateErrors(PidAt(i), i, PhaseGatesOf(PhaseAt(i)))
        ELSE <<>>)

RECURSIVE PhasesOwn(_)
PhasesOwn(n) == IF n = 0 THEN <<>> ELSE PhasesOwn(n - 1) \o OwnPhaseErrors(n)

SixPhasePlan == PlanOf([i \in 1..(PHASE_MIN - 1) |-> FullPhase(i, StdVariant)])

\* C4: a count violation never blocks traversal: a list of phases shorter than 7,
\* a waves list shorter than 5, a milestones list not of length 4 or a tasks list
\* not of length 15 adds exactly one count error for that container, and every
\* element present is still checked, so that the result is the count errors plus
\* what the elements yield on their own; six phases that are otherwise valid
\* yield the phase-count violation alone.
C4_CountNeverBlocks ==
    Returned /\ IsList(phases) =>
        /\ errors = PhasesErrors(phases) \o PhasesOwn(Len(phases.items))
        /\ CountFmt("phase_count={len(phases)} < {PHASE_MIN}")
              = (IF Len(phases.items) < PHASE_MIN THEN 1 ELSE 0)
        /\ CountFmt("{pid}: wave_count={len(waves)} < {WAVE_MIN}")
              = Cardinality({i \in PhasePositions :
                    /\ IsList(Get(PhaseAt(i), "waves", Null))
                    /\ Len(Get(PhaseAt(i), "waves", Null).items) < WAVE_MIN})
        /\ CountFmt("{pid}: milestone_count={len(milestones)} != {MILESTONE_EXACT}")
              = Cardinality({i \in PhasePositions :
                    /\ IsList(MilestonesAt(i))
                    /\ Len(MilestonesAt(i).items) # MILESTONE_EXACT})
        /\ CountFmt("{pid}: {mid}: task_count={len(tasks)} != {TASK_EXACT}")
              = Cardinality({ij \in MilestonePositions :
                    /\ IsList(TasksAt(ij[1], ij[2]))
                    /\ Len(TasksAt(ij[1], ij[2]).items) # TASK_EXACT})
        /\ (plan = SixPhasePlan =>
              errors = <<Msg("phase_count={len(phases)} < {PHASE_MIN}", NoText, NoText,
                             NoText, PHASE_MIN - 1)>>)

C4_Witness ==
    /\ Returned
    /\ plan = SixPhasePlan
    /\ Len(errors) = 1

(* ------------------------------------------------------------------ *)
(* Sequence markers                                                   *)
(* ------------------------------------------------------------------ *)
\* the messages one step appends
NewErrors == SubSeq(errors', Len(errors) + 1, Len(errors'))
NewHasFmt(fmt) == \E i \in (Len(errors) + 1)..Len(errors') : errors'[i].fmt = fmt
NewContains(m) == \E i \in (Len(errors) + 1)..Len(errors') : errors'[i] = m

\* validate is about to check the milestone at m_pos, respectively the task at t_pos
AtMilestone == pc = "milestone" /\ m_pos <= Len(milestones.items) /\ IsDict(milestone)
AtTask == pc = "task" /\ t_pos <= Len(tasks.items) /\ IsDict(task)

\* position n of a list of extracted indices was accepted: its index is present,
\* at least 1 and above every index present before it
Accepted(idxs, n) ==
    /\ idxs[n] # None
    /\ idxs[n] >= 1
    /\ \A h \in 1..(n - 1) : idxs[h] = None \/ idxs[h] < idxs[n]

LargestAccepted(idxs, n) ==
    LET acc == {0} \cup {idxs[h] : h \in {g \in 1..n : Accepted(idxs, g)}}
    IN CHOOSE x \in acc : \A y \in acc : y <= x

MilestoneIdsAre(i, ids) ==
    /\ IsList(MilestonesAt(i))
    /\ Len(MilestonesAt(i).items) = Len(ids)
    /\ \A j \in 1..Len(ids) :
          /\ IsDict(MilestoneAt(i, j))
          /\ Get(MilestoneAt(i, j), "milestone_id", Null) = StrV(ids[j])

C5_Running ==
    /\ (pc = "milestone" =>
          prev_m_index = LargestAccepted(MIdxs(phase_idx), m_pos - 1))
    /\ (pc = "task" =>
          /\ prev_m_index = LargestAccepted(MIdxs(phase_idx), m_pos)
          /\ prev_t_index = LargestAccepted(TIdxs(phase_idx, m_pos), t_pos - 1))
    /\ (pc = "milestone" /\ m_pos = 1 => prev_m_index = 0)
    /\ (pc = "task" /\ t_pos = 1 => prev_t_index = 0)
    /\ (Returned /\ IsList(phases) /\ Len(phases.items) = 1
          /\ IsDict(PhaseAt(1)) /\ MilestoneIdsAre(1, <<MId(1), MId(1), MId(3)>>)
        => /\ CountFmt("{pid}: {mid}: milestone sequence is not strict") = 1
           /\ Contains(Msg("{pid}: {mid}: milestone sequence is not strict",
                           PidAt(1), MId(1), NoText, 0)))

C5_Step ==
    /\ (AtMilestone /\ ExtractIndex(mid, "M") # None =>
          /\ NewHasFmt("{pid}: {mid}: milestone sequence is not strict")
                <=> ExtractIndex(mid, "M") <= prev_m_index
          /\ prev_m_index' = (IF ExtractIndex(mid, "M") <= prev_m_index
                              THEN prev_m_index ELSE ExtractIndex(mid, "M")))
    /\ (AtTask /\ ExtractIndex(tid, "T") # None =>
          /\ NewHasFmt("{pid}: {mid}: task sequence is not strict")
                <=> ExtractIndex(tid, "T") <= prev_t_index
          /\ prev_t_index' = (IF ExtractIndex(tid, "T") <= prev_t_index
                              THEN prev_t_index ELSE ExtractIndex(tid, "T")))

\* C5: the running previous index starts at 0 for each phase (milestones) and each
\* milestone (tasks); an element whose marker index is present gets a "sequence is
\* not strict" error exactly when its index is less than or equal to the running
\* index (so an equal index and the index 0 are violations), and the running index
\* moves to the element's index only when the comparison passed: after any prefix
\* of siblings it is the largest accepted index, and of M1, M1, M3 only the second
\* M1 gets a sequence violation.
C5_StrictIncrease == []C5_Running /\ [][C5_Step]_vars

C5_Witness ==
    /\ Returned
    /\ IsList(phases) /\ Len(phases.items) = 1 /\ IsDict(PhaseAt(1))
    /\ MilestoneIdsAre(1, <<MId(1), MId(1), MId(3)>>)
    /\ CountFmt("{pid}: {mid}: milestone sequence is not strict") = 1

TaskIdsAre(i, j, ids) ==
    /\ IsList(TasksAt(i, j))
    /\ Len(TasksAt(i, j).items) = Len(ids)
    /\ \A n \in 1..Len(ids) :
          /\ IsDict(TasksAt(i, j).items[n])
          /\ Get(TasksAt(i, j).items[n], "task_id", Null) = StrV(ids[n])

TaskXThenT1 ==
    /\ IsDict(plan) /\ IsList(phases) /\ Len(phases.items) = 1 /\ IsDict(PhaseAt(1))
    /\ IsList(MilestonesAt(1)) /\ Len(MilestonesAt(1).items) = 1
    /\ IsDict(MilestoneAt(1, 1))
    /\ TaskIdsAre(1, 1, <<S_taskx, TId(1)>>)

C6_Step ==
    /\ (AtMilestone /\ HasKey(milestone, "milestone_id") /\ ~HasMarker(mid, "M") =>
          /\ NewContains(Msg("{pid}: {mid}: missing milestone sequence marker",
                             pid, mid, NoText, 0))
          /\ ~NewHasFmt("{pid}: {mid}: milestone sequence is not strict")
          /\ prev_m_index' = prev_m_index)
    /\ (AtTask /\ ~HasMarker(tid, "T") =>
          /\ NewContains(Msg("{pid}: {mid}: task missing sequence marker: {tid}",
                             pid, mid, tid, 0))
          /\ ~NewHasFmt("{pid}: {mid}: task sequence is not strict")
          /\ prev_t_index' = prev_t_index)

C6_Example ==
    Returned /\ TaskXThenT1 =>
        /\ CountFmt("{pid}: {mid}: task missing sequence marker: {tid}") = 1
        /\ CountFmt("{pid}: {mid}: task sequence is not strict") = 0

\* C6: an identifier with no <letter><digits> substring is not index 0: a milestone
\* whose milestone_id holds no M<digits>, or a task whose task_id holds no
\* T<digits>, gets a missing-marker error, never a "not strict" error, and leaves
\* the running previous index as it was, so the next sibling is compared with the
\* same value; tasks "task-x" then T1 give one missing-marker error and no
\* sequence error.
C6_NoMarkerIsNotZero == []C6_Example /\ [][C6_Step]_vars

C6_Witness ==
    /\ Returned
    /\ TaskXThenT1
    /\ CountFmt("{pid}: {mid}: task missing sequence marker: {tid}") = 1
    /\ prev_t_index = 1

(* ------------------------------------------------------------------ *)
(* Gates                                                              *)
(* ------------------------------------------------------------------ *)
RollingInterFmt == "{pid}: missing rolling_inter_phase_integration"
RollingCumulFmt == "{pid}: missing rolling_cumulative_e2e"

\* phase i has no phase_gates, or an object without the key
LacksGate(i, key) ==
    \/ ~HasKey(PhaseAt(i), "phase_gates")
    \/ /\ IsDict(Get(PhaseAt(i), "phase_gates", Null))
       /\ ~HasKey(Get(PhaseAt(i), "phase_gates", Null), key)

\* C7 as stated: the first phase never gets a missing-rolling-gate error, and every
\* later phase whose phase_gates is absent or lacks a rolling gate gets the error
\* for that gate, whatever its phase_id, its waves and its milestones.
C7_Original ==
    Returned /\ IsList(phases) =>
        /\ \A i \in PhasePositions \ {1} :
              /\ LacksGate(i, "rolling_inter_phase_integration")
                    => Contains(Msg(RollingInterFmt, PidAt(i), NoText, NoText, 0))
              /\ LacksGate(i, "rolling_cumulative_e2e")
                    => Contains(Msg(RollingCumulFmt, PidAt(i), NoText, NoText, 0))
        /\ CountFmt(RollingInterFmt) = Cardinality({i \in PhasePositions \ {1} :
                LacksGate(i, "rolling_inter_phase_integration")})
        /\ CountFmt(RollingCumulFmt) = Cardinality({i \in PhasePositions \ {1} :
                LacksGate(i, "rolling_cumulative_e2e")})

\* C7, amended: the first phase never gets a missing-rolling-gate error, and every
\* later phase whose milestones is an array and whose phase_gates is absent or
\* lacks a rolling gate gets the error for that gate in every result validate
\* returns, whatever its phase_id and its waves; a phase whose milestones is
\* missing or no array is left before its phase_gates are looked at and gets none.
C7_RollingByPosition ==
    Returned /\ IsList(phases) =>
        /\ \A i \in PhasePositions \ {1} : IsList(MilestonesAt(i)) =>
              /\ LacksGate(i, "rolling_inter_phase_integration")
                    => Contains(Msg(RollingInterFmt, PidAt(i), NoText, NoText, 0))
              /\ LacksGate(i, "rolling_cumulative_e2e")
                    => Contains(Msg(RollingCumulFmt, PidAt(i), NoText, NoText, 0))
        /\ CountFmt(RollingInterFmt) = Cardinality({i \in PhasePositions \ {1} :
                IsList(MilestonesAt(i)) /\ LacksGate(i, "rolling_inter_phase_integration")})
        /\ CountFmt(RollingCumulFmt) = Cardinality({i \in PhasePositions \ {1} :
                IsList(MilestonesAt(i)) /\ LacksGate(i, "rolling_cumulative_e2e")})

C7_Witness ==
    /\ Returned
    /\ IsList(phases) /\ Len(phases.items) >= 2
    /\ LacksGate(1, "rolling_inter_phase_integration")
    /\ IsList(MilestonesAt(1))
    /\ LacksGate(2, "rolling_inter_phase_integration")
    /\ IsList(MilestonesAt(2))
    /\ ~HasKey(PhaseAt(2), "waves")
    /\ CountFmt(RollingInterFmt) = 1

\* C8: a milestone whose tasks is missing or no array gets the missing-tasks error
\* and only its task-level checks are skipped: its unit_gate and integration_gate
\* are still looked for (an absent gate is reported), its following siblings are
\* checked and the phase's phase_gates checks run.
C8_GatesStillChecked ==
    Returned /\ IsList(phases) =>
        \A ij \in MilestonePositions : ~IsList(TasksAt(ij[1], ij[2])) =>
            /\ Contains(Msg("{pid}: {mid}: missing tasks[]",
                            PidAt(ij[1]), MidAt(ij[1], ij[2]), NoText, 0))
            /\ (~HasKey(MilestoneAt(ij[1], ij[2]), "unit_gate") =>
                  Contains(Msg("{pid}: {mid}: missing unit_gate",
                               PidAt(ij[1]), MidAt(ij[1], ij[2]), NoText, 0)))
            /\ (~HasKey(MilestoneAt(ij[1], ij[2]), "integration_gate") =>
                  Contains(Msg("{pid}: {mid}: missing integration_gate",
                               PidAt(ij[1]), MidAt(ij[1], ij[2]), NoText, 0)))

\* the milestone loop of the current phase is over: the phase_gates checks are next
AtPhaseGates == pc = "milestone" /\ m_pos > Len(milestones.items)

PhaseGatesNoObject(i) ==
    /\ HasKey(PhaseAt(i), "phase_gates")
    /\ ~IsDict(Get(PhaseAt(i), "phase_gates", Null))

C9_Step ==
    AtPhaseGates =>
        /\ (~HasKey(phase, "phase_gates") =>
              NewErrors =
                <<Msg("{pid}: missing phase_gates.phase_end_e2e", pid, NoText, NoText, 0)>>
                \o (IF phase_idx > 1
                    THEN <<Msg(RollingInterFmt, pid, NoText, NoText, 0),
                           Msg(RollingCumulFmt, pid, NoText, NoText, 0)>>
                    ELSE <<>>))
        /\ (PhaseGatesNoObject(phase_idx) =>
              NewErrors = <<Msg("{pid}: phase_gates must be an object", pid, NoText,
                                NoText, 0)>>)
        /\ pc' = "phase"
        /\ phase_idx' = phase_idx + 1

C9_Result ==
    Returned /\ IsList(phases) =>
        /\ CountFmt("{pid}: phase_gates must be an object")
              = Cardinality({i \in PhasePositions :
                    IsList(MilestonesAt(i)) /\ PhaseGatesNoObject(i)})
        /\ CountFmt("{pid}: missing phase_gates.phase_end_e2e")
              = Cardinality({i \in PhasePositions :
                    IsList(MilestonesAt(i)) /\ LacksGate(i, "phase_end_e2e")})

\* C9: for a phase whose milestones is an array, an absent phase_gates counts as
\* an empty object: no error for the absence itself, and the sub-checks give the
\* missing phase_end_e2e error plus, after the first phase, the two rolling-gate
\* errors; a phase_gates that is present but no object (null included) gives
\* exactly one "must be an object" error and none of the three sub-check errors;
\* validation goes on with the next phase.
C9_PhaseGates == []C9_Result /\ [][C9_Step]_vars

C9_Witness ==
    /\ Returned
    /\ IsList(phases) /\ Len(phases.items) = 2
    /\ IsList(MilestonesAt(1)) /\ Get(PhaseAt(1), "phase_gates", DictV(<<>>)) = Null
    /\ IsList(MilestonesAt(2)) /\ ~HasKey(PhaseAt(2), "phase_gates")
    /\ CountFmt("{pid}: phase_gates must be an object") = 1
    /\ CountFmt("{pid}: missing phase_gates.phase_end_e2e") = 1
    /\ CountFmt(RollingCumulFmt) = 1

\* C10: a milestone object without a milestone_id field always gets the
\* missing-milestone-sequence-marker error, whatever the phase_id of its phase
\* (one holding M<digits> and an absent one included), and never a "not strict"
\* error nor a move of the phase's running milestone index.
C10_NoIdIsMissingMarker ==
    Returned /\ IsList(phases) =>
        \A ij \in MilestonePositions : ~HasKey(MilestoneAt(ij[1], ij[2]), "milestone_id") =>
            Contains(Msg("{pid}: {mid}: missing milestone sequence marker",
                         PidAt(ij[1]), MidAt(ij[1], ij[2]), NoText, 0))

(* ------------------------------------------------------------------ *)
(* The contract                                                       *)
(* ------------------------------------------------------------------ *)
\* the markers of a list of identifiers: each present, 1 or more, strictly increasing
MarkersStrict(idxs) ==
    \A n \in DOMAIN idxs :
        /\ idxs[n] # None
        /\ idxs[n] >= 1
        /\ \A h \in 1..(n - 1) : idxs[h] < idxs[n]

IdText(obj, key) == IF HasKey(obj, key) THEN Str(Get(obj, key, Null)) ELSE <<>>

TaskMeets(t) ==
    /\ IsDict(t)
    /\ HasMarker(IdText(t, "task_id"), "T")
    /\ HasKey(t, "done_criteria")

MilestoneMeets(m) ==
    /\ IsDict(m)
    /\ HasMarker(IdText(m, "milestone_id"), "M")
    /\ IsList(Get(m, "tasks", Null))
    /\ LET ts == Get(m, "tasks", Null).items
       IN /\ Len(ts) = TASK_EXACT
          /\ \A n \in 1..Len(ts) : TaskMeets(ts[n])
          /\ MarkersStrict([n \in 1..Len(ts) |-> ExtractIndex(IdText(ts[n], "task_id"), "T")])
    /\ HasKey(m, "unit_gate")
    /\ HasKey(m, "integration_gate")

PhaseMeets(p, i) ==
    /\ IsDict(p)
    /\ IsList(Get(p, "waves", Null))
    /\ Len(Get(p, "waves", Null).items) >= WAVE_MIN
    /\ IsList(Get(p, "milestones", Null))
    /\ LET ms == Get(p, "milestones", Null).items
       IN /\ Len(ms) = MILESTONE_EXACT
          /\ \A j \in 1..Len(ms) : MilestoneMeets(ms[j])
          /\ MarkersStrict([j \in 1..Len(ms) |->
                               ExtractIndex(IdText(ms[j], "milestone_id"), "M")])
    /\ IsDict(Get(p, "phase_gates", Null))
    /\ HasKey(Get(p, "phase_gates", Null), "phase_end_e2e")
    /\ (i > 1 =>
          /\ HasKey(Get(p, "phase_gates", Null), "rolling_inter_phase_integration")
          /\ HasKey(Get(p, "phase_gates", Null), "rolling_cumulative_e2e"))

MeetsContract ==
    /\ IsDict(plan)
    /\ IsList(phases)
    /\ Len(phases.items) >= PHASE_MIN
    /\ \A i \in 1..Len(phases.items) : PhaseMeets(phases.items[i], i)

\* C2: validate returns the empty list exactly when the document meets every rule
\* of the contract (at least 7 phases; per phase at least 5 waves and exactly 4
\* milestones whose milestone_id markers M<digits> increase strictly from 1 or
\* more; per milestone exactly 15 tasks whose task_id markers T<digits> do so,
\* each task with done_criteria; unit_gate and integration_gate on every
\* milestone; phase_end_e2e in every phase_gates and the two rolling gates after
\* the first phase); a document breaking a rule gets a non-empty list.
C2_EmptyIffMeetsContract == Returned => (errors = <<>> <=> MeetsContract)

====
